---- MODULE Spec2Model ----
(***************************************************************************)
(* kurobbs_auto_checkin: the two entry scripts src/auto_checkin.py and     *)
(* src/ext_notification.py, modelled side by side.  Each runs a fixed list *)
(* of remote actions per account, collects a per-account summary, sends    *)
(* one notification and exits.                                             *)
(*                                                                         *)
(* Python strings are sequences of characters.  A character is written as  *)
(* a one-character string when it is ASCII and as its pinyin otherwise     *)
(* (two different characters never share an atom), e.g. 已签到 is          *)
(* <<"yi_already", "qian", "dao">>.                                        *)
(***************************************************************************)
EXTENDS Integers, Sequences, FiniteSets, TLC

VARIABLES
    prog,       \* which script runs: "auto_checkin" or "ext_notification"
    raw,        \* os.getenv("TOKEN"); <<>> stands for unset or empty
    pc,         \* position of main()
    accounts,   \* the (name, token) pairs main() iterates over
    idx,        \* 1-based position of the account being processed
    client,     \* the KurobbsClient of the current account
    step,       \* 1-based position in start() / run() of the action in progress
    frame,      \* locals of the operation in progress (roles, posts, loop index)
    all_msg,    \* all_msg / messages: the summaries collected so far
    has_error,  \* has_error of ext_notification.main
    notified,   \* the bodies send_notification was called with, in call order
    delivery,   \* what the notification fan-out reported for the last call
    exit,       \* <<>> while the process runs, then <<its exit status>>
    clients,    \* history: the clients of the accounts already collected
    log,        \* history: what each processed action of the current client met
    faults      \* number of non-success replies the remote side has given

vars == <<prog, raw, pc, accounts, idx, client, step, frame, all_msg,
          has_error, notified, delivery, exit, clients, log, faults>>

\* Python's None, True and False as values of an Optional[bool]
None == "None"

PyTrue == "True"

PyFalse == "False"

\* the None a function without a return statement returns
NoneRes == [kind |-> "None"]

\* ---------------------------------------------------------------------
\* Bounds of the environment
\* ---------------------------------------------------------------------

\* at most this many replies of a run are failures or transport errors
MaxFaults == 1

\* the forum listing returns at most this many posts
MaxPosts == 6

\* the role lookup returns at most this many roles
MaxRoles == 1

\* ---------------------------------------------------------------------
\* Python string operations
\* ---------------------------------------------------------------------

RECURSIVE Cat(_)
\* "".join(parts)
Cat(parts) ==
    IF parts = <<>> THEN <<>> ELSE Head(parts) \o Cat(Tail(parts))

RECURSIVE Join(_, _)
\* sep.join(parts)
Join(sep, parts) ==
    IF parts = <<>> THEN <<>>
    ELSE IF Len(parts) = 1 THEN parts[1]
    ELSE parts[1] \o sep \o Join(sep, Tail(parts))

\* key in s
Contains(s, key) ==
    \E i \in 0..(Len(s) - Len(key)) : SubSeq(s, i + 1, i + Len(key)) = key

RECURSIVE LStrip(_)
LStrip(s) ==
    IF s # <<>> /\ Head(s) = " " THEN LStrip(Tail(s)) ELSE s

RECURSIVE RStrip(_)
RStrip(s) ==
    IF s # <<>> /\ s[Len(s)] = " " THEN RStrip(SubSeq(s, 1, Len(s) - 1)) ELSE s

\* s.strip()
Strip(s) == RStrip(LStrip(s))

\* position of the first occurrence of character ch in s, 0 when absent
Find(s, ch) ==
    IF \E i \in 1..Len(s) : s[i] = ch
    THEN CHOOSE i \in 1..Len(s) : s[i] = ch /\ \A j \in 1..(i - 1) : s[j] # ch
    ELSE 0

RECURSIVE Split(_, _)
\* s.split(ch) for a one-character separator
Split(s, ch) ==
    LET p == Find(s, ch) IN
    IF p = 0 THEN <<s>>
    ELSE <<SubSeq(s, 1, p - 1)>> \o Split(SubSeq(s, p + 1, Len(s)), ch)

\* s.split(ch, 1) when ch occurs in s
SplitOnce(s, ch) ==
    LET p == Find(s, ch) IN <<SubSeq(s, 1, p - 1), SubSeq(s, p + 1, Len(s))>>

Digits == <<"0", "1", "2", "3", "4", "5", "6", "7", "8", "9">>

RECURSIVE Str(_)
\* str(n) for n >= 0
Str(n) ==
    IF n < 10 THEN <<Digits[n + 1]>>
    ELSE Str(n \div 10) \o <<Digits[(n % 10) + 1]>>

\* truthiness of an Optional[bool]
Truthy(b) == b = PyTrue

\* ---------------------------------------------------------------------
\* String literals of the source
\* ---------------------------------------------------------------------

\* "：" (full-width colon)
FwColon == <<"fw_colon">>

\* "，" (full-width comma)
FwComma == <<"fw_comma">>

\* "；" (full-width semicolon)
FwSemi == <<"fw_semi">>

\* "\n"
NL == <<"nl">>

\* "\n❌ "
CrossPrefix == <<"nl", "cross", " ">>

\* "完成"
S_wancheng == <<"wan", "cheng">>

\* "失败"
S_shibai == <<"shi", "bai">>

\* "失败："
S_shibai_colon == S_shibai \o FwColon

\* "异常："
S_yichang_colon == <<"yi_unusual", "chang">> \o FwColon

\* "账号"
S_zhanghao == <<"zhang", "hao">>

\* "请勿重复签到"
S_qingwuchongfu == <<"qing", "wu_not", "chong", "fu", "qian", "dao">>

\* "已签到"
S_yiqiandao == <<"yi_already", "qian", "dao">>

\* "未绑定角色"
S_weibangding == <<"wei", "bang", "ding", "jue", "se">>

\* "未获取到角色信息"
S_weihuoqu == <<"wei", "huo", "qu_take", "dao", "jue", "se", "xin", "xi_news">>

\* "签到奖励成功"
S_reward_ok == <<"qian", "dao", "jiang", "li", "cheng", "gong">>

\* "签到奖励失败："
S_reward_fail == <<"qian", "dao", "jiang", "li">> \o S_shibai_colon

\* "社区签到成功"
S_community_ok == <<"she", "qu_area", "qian", "dao", "cheng", "gong">>

\* "社区签到失败："
S_community_fail == <<"she", "qu_area", "qian", "dao">> \o S_shibai_colon

\* IGNORE_FAIL_MSG = ("请勿重复签到", "已签到", "未绑定角色")
IGNORE_FAIL_MSG == {S_qingwuchongfu, S_yiqiandao, S_weibangding}

\* ---------------------------------------------------------------------
\* Inputs and the remote side
\* ---------------------------------------------------------------------

\* The values of the TOKEN environment variable that are tried:
\*   unset, "t", "A:t,u", " A : t ", "A:t:u", " "
RawTokens ==
    { <<>>,
      <<"t">>,
      <<"A", ":", "t", ",", "u">>,
      <<" ", "A", " ", ":", " ", "t", " ">>,
      <<"A", ":", "t", ":", "u">>,
      <<" ">> }

\* msg of a reply that reports failure: 请勿重复签到, 今日已签到, 未绑定角色, 系统繁忙
Msgs ==
    { S_qingwuchongfu,
      <<"jin", "ri">> \o S_yiqiandao,
      S_weibangding,
      <<"xi_system", "tong", "fan", "mang">> }

\* msg of a reply that reports success
S_ok == <<"o", "k">>

\* str(e) of an exception raised by the transport: "timeout", 连接失败
Excs ==
    { <<"t", "i", "m", "e", "o", "u", "t">>,
      <<"lian", "jie">> \o S_shibai }

\* class Response(BaseModel); data is the list the caller reads out of the
\* payload, <<>> when the payload is None or empty
Response(success, msg, data) ==
    [kind |-> "resp", code |-> IF Truthy(success) THEN 200 ELSE 500,
     success |-> success, msg |-> msg, data |-> data]

\* an exception propagating out of a call
Raise(text) == [kind |-> "raise", text |-> text]

\* a reply is a fault when it is an exception or does not report success
IsFault(r) == r.kind = "raise" \/ ~Truthy(r.success)

\* what requests.post(...) followed by Response(**r.json()) can produce, for
\* an endpoint whose successful payload is one of Data
Replies(Data) ==
    {Response(PyTrue, S_ok, d) : d \in Data}
    \cup (IF faults < MaxFaults
          THEN {Response(s, m, <<>>) : s \in {PyFalse, None}, m \in Msgs}
               \cup {Raise(e) : e \in Excs}
          ELSE {})

\* payload of findRoleList: a list of 0..MaxRoles roles
RoleLists == {[i \in 1..n |-> [roleId |-> i]] : n \in 0..MaxRoles}

\* payload of forum/list: {"list": [posts]} with 0..MaxPosts posts
PostLists == {[i \in 1..n |-> [postId |-> i]] : n \in 0..MaxPosts}

\* payload of the endpoints whose payload is not read
NoPayload == {<<>>}

\* ---------------------------------------------------------------------
\* auto_checkin.py: KurobbsClient
\* ---------------------------------------------------------------------

\* the calls of start(), in order: 鸣潮签到, 战双签到, 社区签到, 浏览任务, 点赞任务, 分享任务
Descriptors ==
    << [name |-> <<"ming", "chao", "qian", "dao">>, op |-> "game_sign", game |-> "3"],
       [name |-> <<"zhan", "shuang", "qian", "dao">>, op |-> "game_sign", game |-> "2"],
       [name |-> <<"she", "qu_area", "qian", "dao">>, op |-> "user_sign", game |-> None],
       [name |-> <<"liu", "lan", "ren", "wu_task">>, op |-> "view_posts", game |-> "3"],
       [name |-> <<"dian", "zan", "ren", "wu_task">>, op |-> "like_posts", game |-> "3"],
       [name |-> <<"fen", "xiang", "ren", "wu_task">>, op |-> "share_task", game |-> None] >>

\* the calls of ext_notification's run(), in order
ExtDescriptors ==
    << [op |-> "checkin_reward"], [op |-> "sign_community"] >>

\* view_posts(game, count=3)
ViewCount == 3

\* like_posts(game, count=5)
LikeCount == 5

\* posts[:count]
Take(s, count) == SubSeq(s, 1, IF Len(s) < count THEN Len(s) ELSE count)

\* an entry of result / errors; src remembers which action appended it
Entry(k, text) == [src |-> k, text |-> text]

\* the texts of a list of entries
Texts(entries) == [i \in 1..Len(entries) |-> entries[i].text]

\* KurobbsClient(token, name) of auto_checkin.py
NewClient(token, name) ==
    [token |-> token, name |-> name, result |-> <<>>, errors |-> <<>>]

\* KurobbsClient(token, name) of ext_notification.py
NewExtClient(token, name) ==
    [token |-> token, name |-> name, results |-> <<>>, errors |-> <<>>]

\* game_sign that raises when there are no roles, as get_user_game_list does
NoRolesRaising == [kind |-> "raise", text |-> S_weihuoqu]

\* game_sign when the role lookup returned no roles
NoRolesOutcome == [kind |-> "ret", res |-> Response(PyTrue, S_weibangding, <<>>)]

\* run() with a bare "except: pass": the exception leaves no record
RunSwallowing(c, k, outcome) ==
    LET name == Descriptors[k].name IN
    IF outcome.kind = "raise"
    THEN c
    ELSE LET res == outcome.res IN
         IF res = NoneRes
            \/ Truthy(res.success)
            \/ \E key \in IGNORE_FAIL_MSG : Contains(res.msg, key)
         THEN [c EXCEPT !.result = Append(@, Entry(k, name \o S_wancheng))]
         ELSE [c EXCEPT !.errors = Append(@, Entry(k, name \o S_shibai_colon \o res.msg))]

\* run() that appends the completion line before it looks at the outcome
RunAppendingFirst(c, k, outcome) ==
    LET name == Descriptors[k].name
        d == [c EXCEPT !.result = Append(@, Entry(k, name \o S_wancheng))]
    IN
    IF outcome.kind = "raise"
    THEN [d EXCEPT !.errors = Append(@, Entry(k, name \o S_yichang_colon \o outcome.text))]
    ELSE LET res == outcome.res IN
         IF res = NoneRes
            \/ Truthy(res.success)
            \/ \E key \in IGNORE_FAIL_MSG : Contains(res.msg, key)
         THEN d
         ELSE [d EXCEPT !.errors = Append(@, Entry(k, name \o S_shibai_colon \o res.msg))]

\* run() without the "not res" test: res.success on None raises
\* AttributeError, which the except clause records
RunWithoutNoneTest(c, k, outcome) ==
    LET name == Descriptors[k].name IN
    IF outcome.kind = "raise"
    THEN [c EXCEPT !.errors = Append(@, Entry(k, name \o S_yichang_colon \o outcome.text))]
    ELSE LET res == outcome.res IN
         IF res = NoneRes
         THEN [c EXCEPT !.errors = Append(@, Entry(k, name \o S_yichang_colon
                                                   \o <<"A", "t", "t", "r">>))]
         ELSE IF Truthy(res.success)
                 \/ \E key \in IGNORE_FAIL_MSG : Contains(res.msg, key)
         THEN [c EXCEPT !.result = Append(@, Entry(k, name \o S_wancheng))]
         ELSE [c EXCEPT !.errors = Append(@, Entry(k, name \o S_shibai_colon \o res.msg))]

\* KurobbsClient.run(name, func) of auto_checkin.py, given what func() did:
\* [kind |-> "ret", res |-> a Response or None] or a raised exception
Run(c, k, outcome) ==
    LET name == Descriptors[k].name IN
    IF outcome.kind = "raise"
    THEN [c EXCEPT !.errors = Append(@, Entry(k, name \o S_yichang_colon \o outcome.text))]
    ELSE LET res == outcome.res IN
         IF res = NoneRes
            \/ Truthy(res.success)
            \/ \E key \in IGNORE_FAIL_MSG : Contains(res.msg, key)
         THEN [c EXCEPT !.result = Append(@, Entry(k, name \o S_wancheng))]
         ELSE [c EXCEPT !.errors = Append(@, Entry(k, name \o S_shibai_colon \o res.msg))]

\* KurobbsClient.summary of auto_checkin.py
Summary(c) ==
    c.name \o FwColon \o Join(FwComma, Texts(c.result))
    \o (IF c.errors # <<>> THEN CrossPrefix \o Join(FwSemi, Texts(c.errors)) ELSE <<>>)

\* enumerate(raw.split(","), 1) with name = f"账号{i}" and token.strip()
Enumerate(r) ==
    LET items == Split(r, ",") IN
    [i \in 1..Len(items) |-> <<S_zhanghao \o Str(i), Strip(items[i])>>]

\* ---------------------------------------------------------------------
\* ext_notification.py: KurobbsClient and parse_tokens
\* ---------------------------------------------------------------------

\* the effect of checkin_reward / sign_community on the client once the
\* sign-in reply res has arrived
ExtRecord(c, k, res, okText, failText) ==
    IF Truthy(res.success)
    THEN [c EXCEPT !.results = Append(@, Entry(k, okText))]
    ELSE [c EXCEPT !.errors = Append(@, Entry(k, failText \o res.msg))]

\* except Exception as e: self.errors.append(str(e))
ExtCatch(c, k, text) ==
    [c EXCEPT !.errors = Append(@, Entry(k, text))]

\* KurobbsClient.summary of ext_notification.py
ExtSummary(c) ==
    IF c.errors # <<>>
    THEN c.name \o FwColon \o Join(FwSemi, Texts(c.errors))
    ELSE c.name \o FwColon \o Join(FwComma, Texts(c.results))

\* one iteration of the loop of parse_tokens: the accounts item idx adds
ParseItem(i, item0) ==
    LET item == Strip(item0) IN
    IF item = <<>> THEN <<>>
    ELSE IF Contains(item, <<":">>)
         THEN LET p == SplitOnce(item, ":") IN << <<Strip(p[1]), Strip(p[2])>> >>
         ELSE << <<Strip(S_zhanghao \o Str(i)), Strip(item)>> >>

\* parse_tokens(raw)
parse_tokens(r) ==
    LET items == Split(r, ",") IN
    Cat([i \in 1..Len(items) |-> ParseItem(i, items[i])])

\* "失败" in client.summary
SummaryHasError(s) == Contains(s, S_shibai)

\* ---------------------------------------------------------------------
\* State machine: shared pieces
\* ---------------------------------------------------------------------

\* locals of the operation in progress; bizfail, urls and noroles are history:
\* whether a reply of this action reported failure, which endpoints it has
\* requested, and whether its role lookup came back empty
NoFrame ==
    [roles |-> <<>>, posts |-> <<>>, k |-> 0,
     bizfail |-> FALSE, urls |-> {}, noroles |-> FALSE]

\* the frame after a request to url was answered by r
Asked(fr, url, r) ==
    [fr EXCEPT !.urls = @ \cup {url},
               !.bizfail = @ \/ (r.kind = "resp" /\ ~Truthy(r.success))]

\* what a call that was answered by r hands to its caller
Outcome(r) == IF r.kind = "raise" THEN r ELSE [kind |-> "ret", res |-> r]

\* a function that ends without a return statement
ReturnsNone == [kind |-> "ret", res |-> NoneRes]

LogEntry(op, outcome, fr) ==
    [op |-> op, outcome |-> outcome, bizfail |-> fr.bizfail,
     urls |-> fr.urls, noroles |-> fr.noroles]

Count(r) == faults' = faults + (IF IsFault(r) THEN 1 ELSE 0)

mainvars == <<prog, raw, accounts, idx, all_msg, has_error, notified,
              delivery, exit, clients>>

Init ==
    /\ prog \in {"auto_checkin", "ext_notification"}
    /\ raw \in RawTokens
    /\ pc = "main"
    /\ accounts = <<>>
    /\ idx = 0
    /\ client = NoneRes
    /\ step = 0
    /\ frame = NoFrame
    /\ all_msg = <<>>
    /\ has_error = FALSE
    /\ notified = <<>>
    /\ delivery = "none"
    /\ exit = <<>>
    /\ clients = <<>>
    /\ log = <<>>
    /\ faults = 0

\* the action in progress is over: control moves to the next call of
\* start() / run(), or back to main() after the last of the n calls
Advance(n) ==
    /\ frame' = NoFrame
    /\ IF step = n
       THEN pc' = "collect" /\ step' = step
       ELSE pc' = "call" /\ step' = step + 1

\* send_notification(body): the fan-out tries every configured channel,
\* contains every channel's failure and returns
send_notification(body) ==
    /\ notified' = Append(notified, body)
    /\ delivery' \in {"Sent", "Skipped", "Failed"}

\* ---------------------------------------------------------------------
\* auto_checkin.py
\* ---------------------------------------------------------------------

\* a loop that stops one account early
LoopDoneEarly == idx >= Len(accounts)

\* the loop of main() has no account left
LoopDone == idx > Len(accounts)

\* "\n\n".join(all_msg)
Body == Join(NL \o NL, all_msg)

\* sys.exit(0)
ExitStatus == 0

\* one self.run(name, func) call of start() comes back with outcome
Finish(outcome, fr) ==
    /\ client' = Run(client, step, outcome)
    /\ log' = Append(log, LogEntry(Descriptors[step].op, outcome, fr))
    /\ Advance(Len(Descriptors))

\* main(): read TOKEN, leave when it is not set
A_main_begin ==
    /\ prog = "auto_checkin" /\ pc = "main"
    /\ IF raw = <<>>
       THEN exit' = <<1>> /\ pc' = "done" /\ UNCHANGED <<accounts, idx>>
       ELSE accounts' = Enumerate(raw) /\ idx' = 1 /\ pc' = "loop" /\ UNCHANGED exit
    /\ UNCHANGED <<prog, raw, client, step, frame, all_msg, has_error,
                   notified, delivery, clients, log, faults>>

\* main(): next iteration of the loop, c = KurobbsClient(token.strip(), name)
A_main_next ==
    /\ prog = "auto_checkin" /\ pc = "loop"
    /\ IF LoopDone
       THEN pc' = "notify" /\ UNCHANGED <<client, step, log>>
       ELSE /\ client' = NewClient(accounts[idx][2], accounts[idx][1])
            /\ step' = 1
            /\ pc' = "call"
            /\ UNCHANGED log
    /\ UNCHANGED <<mainvars, frame, faults>>

\* game_sign: roles = self.get_roles(game.value), and the return when there
\* are none
A_get_roles ==
    /\ prog = "auto_checkin" /\ pc = "call"
    /\ Descriptors[step].op = "game_sign"
    /\ \E r \in Replies(RoleLists) :
        LET fr == Asked(NoFrame, "ROLE_LIST", r) IN
        /\ Count(r)
        /\ IF r.kind = "raise"
           THEN Finish(r, fr)
           ELSE IF r.data = <<>>
           THEN Finish(NoRolesOutcome, [fr EXCEPT !.noroles = TRUE])
           ELSE /\ frame' = [fr EXCEPT !.roles = r.data]
                /\ pc' = "sign"
                /\ UNCHANGED <<client, log, step>>
    /\ UNCHANGED mainvars

\* game_sign: return self.request(API.GAME_SIGN, data) for roles[0]
A_game_sign ==
    /\ prog = "auto_checkin" /\ pc = "sign"
    /\ \E r \in Replies(NoPayload) :
        /\ Count(r)
        /\ Finish(Outcome(r), Asked(frame, "GAME_SIGN", r))
    /\ UNCHANGED mainvars

\* user_sign
A_user_sign ==
    /\ prog = "auto_checkin" /\ pc = "call"
    /\ Descriptors[step].op = "user_sign"
    /\ \E r \in Replies(NoPayload) :
        /\ Count(r)
        /\ Finish(Outcome(r), Asked(NoFrame, "USER_SIGN", r))
    /\ UNCHANGED mainvars

\* view_posts / like_posts: self.forum_posts(game)[:count]
A_forum_posts ==
    /\ prog = "auto_checkin" /\ pc = "call"
    /\ Descriptors[step].op \in {"view_posts", "like_posts"}
    /\ \E r \in Replies(PostLists) :
        LET fr == Asked(NoFrame, "FORUM_LIST", r)
            count == IF Descriptors[step].op = "view_posts" THEN ViewCount ELSE LikeCount
        IN
        /\ Count(r)
        /\ IF r.kind = "raise"
           THEN Finish(r, fr)
           ELSE IF Take(r.data, count) = <<>>
           THEN Finish(ReturnsNone, fr)
           ELSE /\ frame' = [fr EXCEPT !.posts = Take(r.data, count), !.k = 1]
                /\ pc' = "posts"
                /\ UNCHANGED <<client, log, step>>
    /\ UNCHANGED mainvars

\* view_posts / like_posts: one iteration of the loop over the posts
A_post_request ==
    /\ prog = "auto_checkin" /\ pc = "posts"
    /\ \E r \in Replies(NoPayload) :
        LET url == IF Descriptors[step].op = "view_posts" THEN "POST_DETAIL" ELSE "POST_LIKE"
            fr == Asked(frame, url, r)
        IN
        /\ Count(r)
        /\ IF r.kind = "raise"
           THEN Finish(r, fr)
           ELSE IF frame.k = Len(frame.posts)
           THEN Finish(ReturnsNone, fr)
           ELSE /\ frame' = [fr EXCEPT !.k = @ + 1]
                /\ UNCHANGED <<pc, client, log, step>>
    /\ UNCHANGED mainvars

\* share_task
A_share_task ==
    /\ prog = "auto_checkin" /\ pc = "call"
    /\ Descriptors[step].op = "share_task"
    /\ \E r \in Replies(NoPayload) :
        /\ Count(r)
        /\ Finish(Outcome(r), Asked(NoFrame, "TASK_SHARE", r))
    /\ UNCHANGED mainvars

\* main(): all_msg.append(c.summary)
A_main_collect ==
    /\ prog = "auto_checkin" /\ pc = "collect"
    /\ all_msg' = Append(all_msg, Summary(client))
    /\ clients' = Append(clients, client)
    /\ log' = <<>>
    /\ idx' = idx + 1
    /\ pc' = "loop"
    /\ UNCHANGED <<prog, raw, accounts, client, step, frame, has_error,
                   notified, delivery, exit, faults>>

\* main(): send_notification("\n\n".join(all_msg))
A_main_notify ==
    /\ prog = "auto_checkin" /\ pc = "notify"
    /\ send_notification(Body)
    /\ pc' = "exit"
    /\ UNCHANGED <<prog, raw, accounts, idx, client, step, frame, all_msg,
                   has_error, exit, clients, log, faults>>

\* main(): sys.exit(0)
A_main_exit ==
    /\ prog = "auto_checkin" /\ pc = "exit"
    /\ exit' = <<ExitStatus>>
    /\ pc' = "done"
    /\ UNCHANGED <<prog, raw, accounts, idx, client, step, frame, all_msg,
                   has_error, notified, delivery, clients, log, faults>>

\* ---------------------------------------------------------------------
\* ext_notification.py
\* ---------------------------------------------------------------------

\* the loop of main() has no account left
ExtLoopDone == idx > Len(accounts)

\* "\n".join(messages)
ExtBody == Join(NL, all_msg)

\* an exit status that also reflects a failed delivery
ExtExitStatusWithDelivery == IF has_error \/ delivery = "Failed" THEN 1 ELSE 0

\* if has_error: sys.exit(1); otherwise main() returns
ExtExitStatus == IF has_error THEN 1 ELSE 0

\* one try block of run() is over, with the client as c
ExtFinish(c, outcome, fr) ==
    /\ client' = c
    /\ log' = Append(log, LogEntry(ExtDescriptors[step].op, outcome, fr))
    /\ Advance(Len(ExtDescriptors))

\* main(): read TOKEN, leave when it is not set, accounts = parse_tokens(raw_tokens)
E_main_begin ==
    /\ prog = "ext_notification" /\ pc = "main"
    /\ IF raw = <<>>
       THEN exit' = <<1>> /\ pc' = "done" /\ UNCHANGED <<accounts, idx>>
       ELSE accounts' = parse_tokens(raw) /\ idx' = 1 /\ pc' = "loop" /\ UNCHANGED exit
    /\ has_error' = FALSE
    /\ UNCHANGED <<prog, raw, client, step, frame, all_msg,
                   notified, delivery, clients, log, faults>>

\* main(): next iteration of the loop, client = KurobbsClient(token, name)
E_main_next ==
    /\ prog = "ext_notification" /\ pc = "loop"
    /\ IF ExtLoopDone
       THEN pc' = "notify" /\ UNCHANGED <<client, step, log>>
       ELSE /\ client' = NewExtClient(accounts[idx][2], accounts[idx][1])
            /\ step' = 1
            /\ pc' = "call"
            /\ UNCHANGED log
    /\ UNCHANGED <<mainvars, frame, faults>>

\* checkin_reward: games = self.get_user_game_list()
E_get_user_game_list ==
    /\ prog = "ext_notification" /\ pc = "call"
    /\ ExtDescriptors[step].op = "checkin_reward"
    /\ \E r \in Replies(RoleLists) :
        LET fr == Asked(NoFrame, "FIND_ROLE_LIST", r) IN
        /\ Count(r)
        /\ IF r.kind = "raise"
           THEN ExtFinish(ExtCatch(client, step, r.text), r, fr)
           ELSE IF r.data = <<>>
           THEN ExtFinish(ExtCatch(client, step, S_weihuoqu), Raise(S_weihuoqu),
                          [fr EXCEPT !.noroles = TRUE])
           ELSE /\ frame' = [fr EXCEPT !.roles = r.data]
                /\ pc' = "sign"
                /\ UNCHANGED <<client, log, step>>
    /\ UNCHANGED mainvars

\* checkin_reward: res = self.request(self.SIGN_URL, data) for games[0]
E_checkin_reward ==
    /\ prog = "ext_notification" /\ pc = "sign"
    /\ \E r \in Replies(NoPayload) :
        LET fr == Asked(frame, "SIGN", r) IN
        /\ Count(r)
        /\ IF r.kind = "raise"
           THEN ExtFinish(ExtCatch(client, step, r.text), r, fr)
           ELSE ExtFinish(ExtRecord(client, step, r, S_reward_ok, S_reward_fail),
                          Outcome(r), fr)
    /\ UNCHANGED mainvars

\* sign_community
E_sign_community ==
    /\ prog = "ext_notification" /\ pc = "call"
    /\ ExtDescriptors[step].op = "sign_community"
    /\ \E r \in Replies(NoPayload) :
        LET fr == Asked(NoFrame, "USER_SIGN", r) IN
        /\ Count(r)
        /\ IF r.kind = "raise"
           THEN ExtFinish(ExtCatch(client, step, r.text), r, fr)
           ELSE ExtFinish(ExtRecord(client, step, r, S_community_ok, S_community_fail),
                          Outcome(r), fr)
    /\ UNCHANGED mainvars

\* main(): messages.append(client.summary); if "失败" in client.summary: has_error = True
E_main_collect ==
    /\ prog = "ext_notification" /\ pc = "collect"
    /\ all_msg' = Append(all_msg, ExtSummary(client))
    /\ has_error' = (has_error \/ SummaryHasError(ExtSummary(client)))
    /\ clients' = Append(clients, client)
    /\ log' = <<>>
    /\ idx' = idx + 1
    /\ pc' = "loop"
    /\ UNCHANGED <<prog, raw, accounts, client, step, frame,
                   notified, delivery, exit, faults>>

\* main(): send_notification("\n".join(messages))
E_main_notify ==
    /\ prog = "ext_notification" /\ pc = "notify"
    /\ send_notification(ExtBody)
    /\ pc' = "exit"
    /\ UNCHANGED <<prog, raw, accounts, idx, client, step, frame, all_msg,
                   has_error, exit, clients, log, faults>>

\* main(): if has_error: sys.exit(1)
E_main_exit ==
    /\ prog = "ext_notification" /\ pc = "exit"
    /\ exit' = <<ExtExitStatus>>
    /\ pc' = "done"
    /\ UNCHANGED <<prog, raw, accounts, idx, client, step, frame, all_msg,
                   has_error, notified, delivery, clients, log, faults>>

\* ---------------------------------------------------------------------
\* Specification
\* ---------------------------------------------------------------------

Next ==
    \/ A_main_begin
    \/ A_main_next
    \/ A_get_roles
    \/ A_game_sign
    \/ A_user_sign
    \/ A_forum_posts
    \/ A_post_request
    \/ A_share_task
    \/ A_main_collect
    \/ A_main_notify
    \/ A_main_exit
    \/ E_main_begin
    \/ E_main_next
    \/ E_get_user_game_list
    \/ E_checkin_reward
    \/ E_sign_community
    \/ E_main_collect
    \/ E_main_notify
    \/ E_main_exit

Spec == Init /\ [][Next]_vars

\* ---------------------------------------------------------------------
\* Properties
\* ---------------------------------------------------------------------

\* the completed list of a client: result in auto_checkin.py, results in
\* ext_notification.py
Completed(c) == IF prog = "auto_checkin" THEN c.result ELSE c.results

\* number of calls start() / run() makes
NumActions ==
    IF prog = "auto_checkin" THEN Len(Descriptors) ELSE Len(ExtDescriptors)

\* number of actions of the current client that have been processed
Processed == IF pc \in {"call", "sign", "posts"} THEN step - 1 ELSE step

\* the indices of the entries that action k appended
EntriesOf(entries, k) == {i \in 1..Len(entries) : entries[i].src = k}

\* the operations that were invoked for the current client, in order
Invoked == [k \in 1..Len(log) |-> log[k].op]

\* the operations start() / run() is to invoke, in order
ToInvoke ==
    IF prog = "auto_checkin"
    THEN [k \in 1..Len(Descriptors) |-> Descriptors[k].op]
    ELSE [k \in 1..Len(ExtDescriptors) |-> ExtDescriptors[k].op]

\* some rule of the Classification Rule Set occurs in message m
Ignorable(m) == \E key \in IGNORE_FAIL_MSG : Contains(m, key)

\* C1: once a run has processed its accounts and exited, the exit status is
\* non-zero if and only if some account ended with a non-empty errors list.
C1_ExitIffHardFailure ==
    (pc = "done" /\ notified # <<>>)
        => ((exit[1] # 0) <=> (\E j \in 1..Len(clients) : clients[j].errors # <<>>))

\* C2: an action whose operation raised is recorded in errors with the text
\* of the exception and never as completed, and the actions after it are
\* still invoked: when the account is finished every action has been invoked.
C2_RaiseIsContained ==
    /\ \A k \in 1..Len(log) :
          log[k].outcome.kind = "raise"
             => /\ \E i \in EntriesOf(client.errors, k) :
                      Contains(client.errors[i].text, log[k].outcome.text)
                /\ EntriesOf(Completed(client), k) = {}
    /\ pc = "collect" => Invoked = ToInvoke

\* C2 witness: the first action of an account raised and the account has
\* run to its end.
C2_Witness ==
    /\ pc = "collect"
    /\ log[1].outcome.kind = "raise"
    /\ Len(log) = NumActions

\* C3: an action whose reply reports failure with message m is recorded as
\* completed when m contains a rule of the Classification Rule Set, and as a
\* hard failure carrying m otherwise.
C3_FailureClassified ==
    \A k \in 1..Len(log) :
        (/\ log[k].outcome.kind = "ret"
         /\ log[k].outcome.res # NoneRes
         /\ log[k].outcome.res.success = PyFalse)
           => IF Ignorable(log[k].outcome.res.msg)
              THEN /\ EntriesOf(Completed(client), k) # {}
                   /\ EntriesOf(client.errors, k) = {}
              ELSE /\ EntriesOf(Completed(client), k) = {}
                   /\ \E i \in EntriesOf(client.errors, k) :
                         Contains(client.errors[i].text, log[k].outcome.res.msg)

\* C4: while and after an account runs, completed and errors together hold
\* one entry per processed action: each processed action has exactly one
\* entry, in one of the two lists, and no entry belongs to another action.
C4_OneEntryPerAction ==
    client # NoneRes =>
        LET all == Completed(client) \o client.errors IN
        /\ Len(Completed(client)) + Len(client.errors) = Processed
        /\ \A k \in 1..Processed : Cardinality(EntriesOf(all, k)) = 1
        /\ \A i \in 1..Len(all) : all[i].src \in 1..Processed

\* C4 witness: in the middle of an account, with a completed action and a
\* hard failure behind it.
C4_Witness ==
    /\ pc = "call"
    /\ step > 2
    /\ Completed(client) # <<>>
    /\ client.errors # <<>>

\* the summary a finished client renders, and the separator of the body
SummaryOf(c) == IF prog = "auto_checkin" THEN Summary(c) ELSE ExtSummary(c)

Separator == IF prog = "auto_checkin" THEN NL \o NL ELSE NL

\* C5 as stated: every run that has ended has called send_notification
\* exactly once.
C5_AlwaysNotifiedOnce ==
    pc = "done" => Len(notified) = 1

\* C5 amended: send_notification is called at most once, only after every
\* account has run all its actions, with the summaries of all accounts in
\* account order as its body; a run that found TOKEN set has called it
\* exactly once when it ends.
C5_NotifiedOnceWhenTokenSet ==
    /\ Len(notified) <= 1
    /\ notified # <<>> =>
          /\ pc \in {"exit", "done"}
          /\ Len(clients) = Len(accounts)
          /\ \A j \in 1..Len(clients) :
                /\ clients[j].name = accounts[j][1]
                /\ Len(Completed(clients[j])) + Len(clients[j].errors) = NumActions
          /\ notified[1] =
                Join(Separator, [j \in 1..Len(clients) |-> SummaryOf(clients[j])])
    /\ (pc = "done" /\ raw # <<>>) => Len(notified) = 1

\* C5 witness: a run over two accounts has ended and notified once.
C5_Witness ==
    /\ pc = "done"
    /\ Len(clients) = 2
    /\ Len(notified) = 1

\* the summary the specification prescribes
Rendered(c) ==
    c.name \o FwColon \o Join(FwComma, Texts(Completed(c)))
    \o (IF c.errors # <<>> THEN CrossPrefix \o Join(FwSemi, Texts(c.errors)) ELSE <<>>)

\* C6: the summary collected for an account is its name and "：", the
\* completed actions joined by "，" and, when there are hard failures, a new
\* line with "❌ " and the failures joined by "；".
C6_SummaryListsBoth ==
    \A j \in 1..Len(all_msg) : all_msg[j] = Rendered(clients[j])

\* the exit status the task outcomes alone determine
TaskExit ==
    IF prog = "auto_checkin" THEN 0
    ELSE IF \E j \in 1..Len(all_msg) : Contains(all_msg[j], S_shibai) THEN 1 ELSE 0

\* C7: the exit status of a run that notified is the one the collected
\* summaries determine, whatever the delivery reported.
C7_ExitIgnoresDelivery ==
    (pc = "done" /\ notified # <<>>) => exit[1] = TaskExit

\* C7 witness: the delivery failed and the run exited with status 0.
C7_Witness ==
    /\ pc = "done"
    /\ delivery = "Failed"
    /\ exit = <<0>>

\* the account entry number n of the credential string stands for
ClaimedAccount(n, entry) ==
    IF Contains(entry, <<":">>)
    THEN <<Strip(SplitOnce(entry, ":")[1]), Strip(SplitOnce(entry, ":")[2])>>
    ELSE <<S_zhanghao \o Str(n), Strip(entry)>>

\* the entries of the credential string, in order
ClaimedEntries(r) == Split(r, ",")

\* C8: when no entry of the credential string is blank, the accounts a run
\* iterates over are one per entry, in order: (display_name, token) for an
\* entry display_name:token, (synthetic name numbered by position, token)
\* otherwise.
C8_AccountsParsed ==
    (/\ pc = "loop"
     /\ \A n \in 1..Len(ClaimedEntries(raw)) : Strip(ClaimedEntries(raw)[n]) # <<>>)
       => accounts = [n \in 1..Len(ClaimedEntries(raw)) |->
                         ClaimedAccount(n, ClaimedEntries(raw)[n])]

\* C9: in auto_checkin.py a browse or like task that ended without an
\* exception returned None and is recorded as completed and not in errors,
\* whether or not one of its replies reported failure.
C9_PostTasksComplete ==
    prog = "auto_checkin" =>
        \A k \in 1..Len(log) :
            (log[k].op \in {"view_posts", "like_posts"} /\ log[k].outcome.kind = "ret")
               => /\ log[k].outcome.res = NoneRes
                  /\ \E i \in EntriesOf(client.result, k) :
                        client.result[i].text = Descriptors[k].name \o S_wancheng
                  /\ EntriesOf(client.errors, k) = {}

\* C9 witness: a post-detail reply of the browse task reported failure and
\* the task ended without an exception.
C9_Witness ==
    /\ prog = "auto_checkin"
    /\ \E k \in 1..Len(log) :
          /\ log[k].op = "view_posts"
          /\ log[k].outcome.kind = "ret"
          /\ log[k].bizfail
          /\ "POST_DETAIL" \in log[k].urls

\* C10: in auto_checkin.py a game sign-in whose role lookup returned no roles
\* sends no sign-in request and is recorded as completed and not in errors,
\* and the account still runs all its actions.
C10_NoRolesCompletes ==
    prog = "auto_checkin" =>
        /\ \A k \in 1..Len(log) :
              log[k].noroles
                 => /\ log[k].urls = {"ROLE_LIST"}
                    /\ \E i \in EntriesOf(client.result, k) :
                          client.result[i].text = Descriptors[k].name \o S_wancheng
                    /\ EntriesOf(client.errors, k) = {}
        /\ (pc = "collect" /\ \E k \in 1..Len(log) : log[k].noroles)
              => Invoked = ToInvoke

\* C10 witness: the first game has no roles and the account has run to its end.
C10_Witness ==
    /\ prog = "auto_checkin"
    /\ pc = "collect"
    /\ log[1].noroles
    /\ Len(log) = Len(Descriptors)

====
